---- MODULE Spec2Model ----
(***************************************************************************)
(* Model of the pbcurve constant-product bonding curve                     *)
(* (src/native/src/curve.rs): Curve::new, y_at, x_from_y, snapshot, mint,  *)
(* simulate_mints, total_raise_sats, final_mc_sats, progress_at_step and   *)
(* avg_progess.  The u128 amounts are modelled as unsigned integers of     *)
(* Bits bits so that every overflow path of the code is reachable.         *)
(***************************************************************************)
EXTENDS Integers, Sequences, FiniteSets, TLC

\* ------------------------------------------------------------------ bounds
Bits == 8          \* width of the unsigned integer type standing for u128
MaxSupply == 2     \* total_supply is drawn from 0..MaxSupply
MaxSell == 4       \* sell_amount is drawn from 0..MaxSell and UMAX - 1
MaxVt == 3         \* vt is drawn from 0..MaxVt, a square-overflowing value and UMAX
MaxSats == 4       \* sats_in is drawn from 0..MaxSats and UMAX
MaxMints == 3      \* longest batch handed to simulate_mints
MaxOver == 2       \* how far past sell_amount a step argument may lie
MaxAvgLen == 2     \* longest list handed to avg_progess

UMAX == 2^Bits - 1

\* ------------------------------------------------- integer primitives (u128)
None == -1

Min(a, b) == IF a < b THEN a ELSE b

checked_add(a, b) == IF a + b > UMAX THEN None ELSE a + b

checked_sub(a, b) == IF a < b THEN None ELSE a - b

checked_mul(a, b) == IF a * b > UMAX THEN None ELSE a * b

saturating_add(a, b) == Min(a + b, UMAX)

saturating_sub(a, b) == IF a < b THEN 0 ELSE a - b

saturating_mul(a, b) == Min(a * b, UMAX)

saturating_div(a, b) == a \div b

wrapping_add(a, b) == (a + b) % (UMAX + 1)

wrapping_mul(a, b) == (a * b) % (UMAX + 1)

\* ----------------------------------------------------------- result values
Ok(v) == [ok |-> TRUE, val |-> v]

Err(e) == [ok |-> FALSE, err |-> e]

CurveError == {"InvalidConfig", "OutOfRange", "ZeroInput", "ExceedsPool"}

\* ------------------------------------------------------------- Curve::new
Curve_new_nozero(cfg) ==
  LET total_supply == cfg.total_supply
      sellable_tokens == cfg.sell_amount
      vt == cfg.vt
      mc == cfg.mc_target_sats
  IN IF total_supply = 0 \/ sellable_tokens = 0 \/ vt = 0 \/ mc = 0
     THEN Err("InvalidConfig")
     ELSE LET y0 == checked_add(vt, sellable_tokens) IN
          IF y0 = None THEN Err("InvalidConfig") ELSE
          LET vt_sq == checked_mul(vt, vt) IN
          IF vt_sq = None THEN Err("InvalidConfig") ELSE
          LET num == checked_mul(mc, vt_sq) IN
          IF num = None THEN Err("InvalidConfig") ELSE
          LET den == checked_mul(y0, total_supply) IN
          IF den = None THEN Err("InvalidConfig") ELSE
          IF den = 0 THEN Err("InvalidConfig") ELSE
          LET x0 == saturating_div(num, den) IN
          LET k == checked_mul(x0, y0) IN
          IF k = None THEN Err("InvalidConfig") ELSE
          Ok([total_supply |-> total_supply, sell_amount |-> sellable_tokens,
              vt |-> vt, y0 |-> y0, x0 |-> x0, k |-> k])

Curve_new(cfg) ==
  LET total_supply == cfg.total_supply
      sellable_tokens == cfg.sell_amount
      vt == cfg.vt
      mc == cfg.mc_target_sats
  IN IF total_supply = 0 \/ sellable_tokens = 0 \/ vt = 0 \/ mc = 0
     THEN Err("InvalidConfig")
     ELSE LET y0 == checked_add(vt, sellable_tokens) IN
          IF y0 = None THEN Err("InvalidConfig") ELSE
          LET vt_sq == checked_mul(vt, vt) IN
          IF vt_sq = None THEN Err("InvalidConfig") ELSE
          LET num == checked_mul(mc, vt_sq) IN
          IF num = None THEN Err("InvalidConfig") ELSE
          LET den == checked_mul(y0, total_supply) IN
          IF den = None THEN Err("InvalidConfig") ELSE
          IF den = 0 THEN Err("InvalidConfig") ELSE
          LET x0 == saturating_div(num, den) IN
          IF x0 = 0 THEN Err("InvalidConfig") ELSE
          LET k == checked_mul(x0, y0) IN
          IF k = None THEN Err("InvalidConfig") ELSE
          Ok([total_supply |-> total_supply, sell_amount |-> sellable_tokens,
              vt |-> vt, y0 |-> y0, x0 |-> x0, k |-> k])

\* ------------------------------------------------------------ state query
y_at_added(c, step) ==
  IF step > c.sell_amount THEN Err("OutOfRange") ELSE
  LET y == checked_add(c.vt, step) IN
  IF y = None THEN Err("InvalidConfig") ELSE Ok(y)

y_at(c, step) ==
  IF step > c.sell_amount THEN Err("OutOfRange") ELSE
  LET remaining == checked_sub(c.sell_amount, step) IN
  IF remaining = None THEN Err("OutOfRange") ELSE
  LET y == checked_add(c.vt, remaining) IN
  IF y = None THEN Err("InvalidConfig") ELSE Ok(y)

x_from_y_ceil(c, y) == (c.k + y - 1) \div y

x_from_y(c, y) == c.k \div y

snapshot(c, step) ==
  LET y == y_at(c, step) IN
  IF ~y.ok THEN y ELSE
  LET x == x_from_y(c, y.val) IN
  Ok([step |-> step, x |-> x, y |-> y.val])

\* ------------------------------------------------------------------- mint
\* the add of the payment wraps instead of being checked
mint_wrapping(c, step, sats_in) ==
  IF sats_in = 0 THEN Err("ZeroInput") ELSE
  LET y == y_at(c, step) IN
  IF ~y.ok THEN y ELSE
  LET x == x_from_y(c, y.val)
      x2 == wrapping_add(x, sats_in)
  IN IF x2 = 0 THEN Err("InvalidConfig") ELSE
  LET y_raw == c.k \div x2
      y_prime == IF y_raw < c.vt THEN c.vt ELSE y_raw
      dy == saturating_sub(y.val, y_prime)
      new_step == Min(saturating_add(step, dy), c.sell_amount)
  IN Ok(<<new_step, dy>>)

\* the virtual reserve is not kept as a floor of Y'
mint_nofloor(c, step, sats_in) ==
  IF sats_in = 0 THEN Err("ZeroInput") ELSE
  LET y == y_at(c, step) IN
  IF ~y.ok THEN y ELSE
  LET x == x_from_y(c, y.val)
      x2 == checked_add(x, sats_in)
  IN IF x2 = None THEN Err("InvalidConfig") ELSE
  LET y_raw == c.k \div x2
      y_prime == y_raw
      dy == saturating_sub(y.val, y_prime)
      new_step == Min(saturating_add(step, dy), c.sell_amount)
  IN Ok(<<new_step, dy>>)

\* neither the floor at vt nor the clamp to sell_amount
mint_unclamped(c, step, sats_in) ==
  IF sats_in = 0 THEN Err("ZeroInput") ELSE
  LET y == y_at(c, step) IN
  IF ~y.ok THEN y ELSE
  LET x == x_from_y(c, y.val)
      x2 == checked_add(x, sats_in)
  IN IF x2 = None THEN Err("InvalidConfig") ELSE
  LET y_raw == c.k \div x2
      dy == saturating_sub(y.val, y_raw)
      new_step == saturating_add(step, dy)
  IN Ok(<<new_step, dy>>)

\* the step is range-checked before the payment is
mint_stepfirst(c, step, sats_in) ==
  LET y == y_at(c, step) IN
  IF ~y.ok THEN y ELSE
  IF sats_in = 0 THEN Err("ZeroInput") ELSE
  LET x == x_from_y(c, y.val)
      x2 == checked_add(x, sats_in)
  IN IF x2 = None THEN Err("InvalidConfig") ELSE
  LET y_raw == c.k \div x2
      y_prime == IF y_raw < c.vt THEN c.vt ELSE y_raw
      dy == saturating_sub(y.val, y_prime)
      new_step == Min(saturating_add(step, dy), c.sell_amount)
  IN Ok(<<new_step, dy>>)

mint(c, step, sats_in) ==
  IF sats_in = 0 THEN Err("ZeroInput") ELSE
  LET y == y_at(c, step) IN
  IF ~y.ok THEN y ELSE
  LET x == x_from_y(c, y.val)
      x2 == checked_add(x, sats_in)
  IN IF x2 = None THEN Err("InvalidConfig") ELSE
  LET y_raw == c.k \div x2
      y_prime == IF y_raw < c.vt THEN c.vt ELSE y_raw
      dy == saturating_sub(y.val, y_prime)
      new_step == Min(saturating_add(step, dy), c.sell_amount)
  IN Ok(<<new_step, dy>>)

\* ---------------------------------------------------- aggregate reporting
total_raise_sats(c) ==
  LET x_final == c.k \div c.vt IN saturating_sub(x_final, c.x0)

final_mc_sats(c) ==
  LET vt_sq == checked_mul(c.vt, c.vt) IN
  IF vt_sq = None THEN Err("InvalidConfig") ELSE
  LET p_final == c.k \div vt_sq IN
  Ok(saturating_mul(p_final, c.total_supply))

progress_at_step(c, step) == saturating_mul(step, 100) \div c.total_supply

RECURSIVE Product(_)
Product(s) == IF s = <<>> THEN 1 ELSE s[1] * Product(Tail(s))

RECURSIVE Sum(_)
Sum(s) == IF s = <<>> THEN 0 ELSE s[1] + Sum(Tail(s))

RECURSIVE iter_product(_, _, _)
\* Iterator::product over u128, folding left to right from 1: a multiplication
\* that overflows panics when overflow checks are compiled in, wraps otherwise
iter_product(acc, s, overflow_checks) ==
  IF s = <<>> THEN acc ELSE
  IF acc * s[1] > UMAX
  THEN (IF overflow_checks THEN None
        ELSE iter_product(wrapping_mul(acc, s[1]), Tail(s), overflow_checks))
  ELSE iter_product(acc * s[1], Tail(s), overflow_checks)

RECURSIVE iter_sum(_, _, _)
\* Iterator::sum over u128, folding left to right from 0
iter_sum(acc, s, overflow_checks) ==
  IF s = <<>> THEN acc ELSE
  IF acc + s[1] > UMAX
  THEN (IF overflow_checks THEN None
        ELSE iter_sum(wrapping_add(acc, s[1]), Tail(s), overflow_checks))
  ELSE iter_sum(acc + s[1], Tail(s), overflow_checks)

avg_progess(c, steps, overflow_checks) ==
  LET product == iter_product(1, steps, overflow_checks)
      sum == iter_sum(0, steps, overflow_checks)
  IN IF product = None \/ sum = None THEN Err("panic")
     ELSE IF sum = 0 THEN Err("panic")
     ELSE Ok(product \div sum)

\* ------------------------------------------------------------ input spaces
SupplySet == 0..MaxSupply

SellSet == (0..MaxSell) \cup {UMAX - 1}

VtSet == (0..MaxVt) \cup {2^((Bits + 1) \div 2), UMAX}

McSet == {0, 1, 7, 25, 60, UMAX}

CurveConfig == [total_supply : SupplySet, sell_amount : SellSet,
                vt : VtSet, mc_target_sats : McSet]

SatsSet == (0..MaxSats) \cup {UMAX}

StepArgs(c) == 0..Min(c.sell_amount + MaxOver, UMAX)

SeqsUpTo(S, n) == UNION {[1..m -> S] : m \in 0..n}

BatchSats == {0, 1, MaxSats - 1, UMAX}

MintLists == SeqsUpTo(BatchSats, MaxMints)

AvgLists == SeqsUpTo({0, 1, 2, UMAX}, MaxAvgLen)

\* -------------------------------------------------------------------- state
VARIABLES
  curve,         \* result of Curve::new: Ok(Curve) or Err(InvalidConfig)
  pc,            \* "start": nothing constructed; "idle": between calls;
                 \* "loop": inside the for loop of simulate_mints
  op,            \* name of the call last made (or in progress)
  arg,           \* its arguments
  ret,           \* its return value once it returned
  current_step,  \* simulate_mints: local current_step
  results        \* simulate_mints: local results

vars == <<curve, pc, op, arg, ret, current_step, results>>

NoRet == Err("pending")

Init ==
  /\ curve = Err("unconstructed")
  /\ pc = "start"
  /\ op = "none"
  /\ arg = [none |-> 0]
  /\ ret = NoRet
  /\ current_step = 0
  /\ results = <<>>

Constructed == pc = "idle" /\ curve.ok

\* Curve::new(cfg)
New ==
  /\ pc = "start"
  /\ \E cfg \in CurveConfig :
       /\ curve' = Curve_new(cfg)
       /\ arg' = [cfg |-> cfg]
       /\ ret' = Curve_new(cfg)
  /\ op' = "new"
  /\ pc' = "idle"
  /\ UNCHANGED <<current_step, results>>

\* curve.snapshot(step)
Snapshot ==
  /\ Constructed
  /\ \E step \in StepArgs(curve.val) :
       /\ arg' = [step |-> step]
       /\ ret' = snapshot(curve.val, step)
  /\ op' = "snapshot"
  /\ current_step' = 0
  /\ results' = <<>>
  /\ UNCHANGED <<curve, pc>>

\* curve.mint(step, sats_in)
Mint ==
  /\ Constructed
  /\ \E step \in StepArgs(curve.val), sats_in \in SatsSet :
       /\ arg' = [step |-> step, sats_in |-> sats_in]
       /\ ret' = mint(curve.val, step, sats_in)
  /\ op' = "mint"
  /\ current_step' = 0
  /\ results' = <<>>
  /\ UNCHANGED <<curve, pc>>

\* curve.simulate_mints(mints): entry, before the first iteration
SimulateMintsCall ==
  /\ Constructed
  /\ \E mints \in MintLists : arg' = [mints |-> mints]
  /\ op' = "simulate_mints"
  /\ pc' = "loop"
  /\ ret' = NoRet
  /\ current_step' = 0
  /\ results' = <<>>
  /\ UNCHANGED curve

\* one iteration of the for loop: the push records the step the mint returned
SimulateMintsIter_pushnew ==
  /\ pc = "loop"
  /\ Len(results) < Len(arg.mints)
  /\ LET m == arg.mints[Len(results) + 1]
         r == mint(curve.val, current_step, m)
     IN IF r.ok
        THEN /\ results' = Append(results, <<r.val[1], r.val[2]>>)
             /\ current_step' = r.val[1]
             /\ UNCHANGED <<pc, ret>>
        ELSE /\ ret' = r
             /\ pc' = "idle"
             /\ results' = <<>>
             /\ current_step' = 0
  /\ UNCHANGED <<curve, op, arg>>

\* one iteration of the for loop; `?` returns the error and drops the locals
SimulateMintsIter ==
  /\ pc = "loop"
  /\ Len(results) < Len(arg.mints)
  /\ LET m == arg.mints[Len(results) + 1]
         r == mint(curve.val, current_step, m)
     IN IF r.ok
        THEN /\ results' = Append(results, <<current_step, r.val[2]>>)
             /\ current_step' = r.val[1]
             /\ UNCHANGED <<pc, ret>>
        ELSE /\ ret' = r
             /\ pc' = "idle"
             /\ results' = <<>>
             /\ current_step' = 0
  /\ UNCHANGED <<curve, op, arg>>

\* loop exhausted: Ok(results)
SimulateMintsReturn ==
  /\ pc = "loop"
  /\ Len(results) = Len(arg.mints)
  /\ ret' = Ok(results)
  /\ pc' = "idle"
  /\ UNCHANGED <<curve, op, arg, current_step, results>>

\* curve.total_raise_sats()
TotalRaiseSats ==
  /\ Constructed
  /\ op' = "total_raise_sats"
  /\ arg' = [none |-> 0]
  /\ ret' = Ok(total_raise_sats(curve.val))
  /\ current_step' = 0
  /\ results' = <<>>
  /\ UNCHANGED <<curve, pc>>

\* curve.final_mc_sats()
FinalMcSats ==
  /\ Constructed
  /\ op' = "final_mc_sats"
  /\ arg' = [none |-> 0]
  /\ ret' = final_mc_sats(curve.val)
  /\ current_step' = 0
  /\ results' = <<>>
  /\ UNCHANGED <<curve, pc>>

\* curve.progress_at_step(step)
ProgressAtStep ==
  /\ Constructed
  /\ \E step \in StepArgs(curve.val) \cup {UMAX} :
       /\ arg' = [step |-> step]
       /\ ret' = Ok(progress_at_step(curve.val, step))
  /\ op' = "progress_at_step"
  /\ current_step' = 0
  /\ results' = <<>>
  /\ UNCHANGED <<curve, pc>>

\* curve.avg_progess(steps), under either build profile
AvgProgess ==
  /\ Constructed
  /\ \E steps \in AvgLists, overflow_checks \in BOOLEAN :
       /\ arg' = [steps |-> steps, overflow_checks |-> overflow_checks]
       /\ ret' = avg_progess(curve.val, steps, overflow_checks)
  /\ op' = "avg_progess"
  /\ current_step' = 0
  /\ results' = <<>>
  /\ UNCHANGED <<curve, pc>>

Next ==
  \/ New
  \/ Snapshot
  \/ Mint
  \/ SimulateMintsCall
  \/ SimulateMintsIter
  \/ SimulateMintsReturn
  \/ TotalRaiseSats
  \/ FinalMcSats
  \/ ProgressAtStep
  \/ AvgProgess

Spec == Init /\ [][Next]_vars

TypeOK ==
  /\ pc \in {"start", "idle", "loop"}
  /\ current_step \in 0..UMAX
  /\ Len(results) <= MaxMints

\* ------------------------------------------------------- derived quantities
Max(a, b) == IF a < b THEN b ELSE a

\* payments made by the iterations of simulate_mints completed so far
SumPaid == Sum(SubSeq(arg.mints, 1, Len(results)))

\* tokens issued by the iterations of simulate_mints completed so far
SumTokensOut == Sum([j \in 1..Len(results) |-> results[j][2]])

\* simulate_mints is running or has returned Ok
SimAlive == op = "simulate_mints" /\ (pc = "loop" \/ ret.ok)

RECURSIVE StepAfter(_, _, _)
\* the step returned by the j-th of j separate mint calls, each fed the step
\* the previous call returned, the first fed 0
StepAfter(c, mints, j) ==
  IF j = 0 THEN 0
  ELSE LET r == mint(c, StepAfter(c, mints, j - 1), mints[j]) IN
       IF r.ok THEN r.val[1] ELSE 0

RECURSIVE PrefixOk(_, _, _)
\* the first j of those separate mint calls all succeed
PrefixOk(c, mints, j) ==
  IF j = 0 THEN TRUE
  ELSE /\ PrefixOk(c, mints, j - 1)
       /\ mint(c, StepAfter(c, mints, j - 1), mints[j]).ok

\* -------------------------------------------------------------------- C1
\* C1: a successful mint at a step in [0, sell_amount] with sats_in > 0 returns
\* new_step <= sell_amount, and the step threaded through simulate_mints stays
\* within [0, sell_amount].
C1_NewStepWithinRange ==
  /\ (op = "mint" /\ ret.ok /\ arg.step <= curve.val.sell_amount /\ arg.sats_in > 0)
       => ret.val[1] <= curve.val.sell_amount
  /\ op = "simulate_mints"
       => /\ 0 <= current_step /\ current_step <= curve.val.sell_amount
          /\ \A j \in 1..Len(results) : results[j][1] <= curve.val.sell_amount

\* a mint from below sell_amount whose raw Y' falls under vt and lands on sell_amount
C1_Witness ==
  /\ op = "mint" /\ ret.ok
  /\ arg.step < curve.val.sell_amount
  /\ curve.val.k \div (x_from_y(curve.val, y_at(curve.val, arg.step).val) + arg.sats_in)
       < curve.val.vt
  /\ ret.val[1] = curve.val.sell_amount

\* -------------------------------------------------------------------- C2
\* C2: for a fixed step, a payment no larger than the one made never buys more
\* tokens: sats_in1 <= sats_in2, both mints succeeding, gives
\* tokens_out(sats_in1) <= tokens_out(sats_in2).
C2_MintMonotone ==
  (op = "mint" /\ ret.ok /\ arg.step <= curve.val.sell_amount)
    => \A sats_in1 \in 1..arg.sats_in :
         LET r1 == mint(curve.val, arg.step, sats_in1) IN
         r1.ok => r1.val[2] <= ret.val[2]

\* a larger payment that buys strictly more than a smaller one at the same step
C2_Witness ==
  /\ op = "mint" /\ ret.ok
  /\ \E sats_in1 \in 1..arg.sats_in :
       LET r1 == mint(curve.val, arg.step, sats_in1) IN
       r1.ok /\ r1.val[2] > 0 /\ r1.val[2] < ret.val[2]

\* -------------------------------------------------------------------- C3
\* C3: snapshot(step) for step in [0, sell_amount] succeeds with
\* y = vt + (sell_amount - step) and x = floor(k / y): x * y <= k < (x + 1) * y.
C3_SnapshotOnCurve ==
  (op = "snapshot" /\ arg.step <= curve.val.sell_amount)
    => /\ ret.ok
       /\ ret.val.step = arg.step
       /\ ret.val.y = curve.val.vt + (curve.val.sell_amount - arg.step)
       /\ ret.val.x * ret.val.y <= curve.val.k
       /\ curve.val.k < (ret.val.x + 1) * ret.val.y

\* a snapshot strictly inside the range whose product undershoots k
C3_Witness ==
  /\ op = "snapshot" /\ ret.ok
  /\ 0 < arg.step /\ arg.step < curve.val.sell_amount
  /\ ret.val.x * ret.val.y < curve.val.k

\* -------------------------------------------------------------------- C4
\* the conditions of C4 over unbounded integers
ValidConfig(cfg) ==
  /\ cfg.total_supply > 0 /\ cfg.sell_amount > 0
  /\ cfg.vt > 0 /\ cfg.mc_target_sats > 0
  /\ cfg.vt + cfg.sell_amount <= UMAX
  /\ cfg.vt * cfg.vt <= UMAX
  /\ cfg.mc_target_sats * cfg.vt * cfg.vt <= UMAX
  /\ (cfg.vt + cfg.sell_amount) * cfg.total_supply <= UMAX
  /\ LET x0 == (cfg.mc_target_sats * cfg.vt * cfg.vt)
                 \div ((cfg.vt + cfg.sell_amount) * cfg.total_supply)
     IN x0 /= 0 /\ x0 * (cfg.vt + cfg.sell_amount) <= UMAX

\* C4: Curve::new(cfg) is Ok exactly for the valid configs, then with
\* y0 = vt + sell_amount, x0 = floor(mc * vt^2 / (y0 * total_supply)),
\* k = x0 * y0 and the three inputs copied; otherwise it is InvalidConfig.
C4_NewExactlyValid ==
  op = "new"
    => LET cfg == arg.cfg IN
       /\ ret.ok <=> ValidConfig(cfg)
       /\ ret.ok =>
            /\ ret.val.total_supply = cfg.total_supply
            /\ ret.val.sell_amount = cfg.sell_amount
            /\ ret.val.vt = cfg.vt
            /\ ret.val.y0 = cfg.vt + cfg.sell_amount
            /\ ret.val.x0 * (ret.val.y0 * cfg.total_supply)
                 <= cfg.mc_target_sats * cfg.vt * cfg.vt
            /\ cfg.mc_target_sats * cfg.vt * cfg.vt
                 < (ret.val.x0 + 1) * (ret.val.y0 * cfg.total_supply)
            /\ ret.val.x0 > 0
            /\ ret.val.k = ret.val.x0 * ret.val.y0
       /\ ~ret.ok => ret = Err("InvalidConfig")
       /\ curve = ret

\* a construction that succeeds with an inexact division for x0
C4_Witness ==
  /\ op = "new" /\ ret.ok
  /\ ret.val.x0 > 1
  /\ ret.val.x0 * (ret.val.y0 * ret.val.total_supply)
       < arg.cfg.mc_target_sats * arg.cfg.vt * arg.cfg.vt

\* -------------------------------------------------------------------- C5
\* C5: simulate_mints returns, when every transition succeeds, one pair per
\* amount in input order, the j-th being (step before, tokens_out) of the j-th
\* of n separate threaded mint calls, and ends on their final step; when a
\* transition fails it returns that call's error and no pairs.
C5_SimulateIsFold ==
  (op = "simulate_mints" /\ pc = "idle")
    => LET c == curve.val
           mints == arg.mints
           n == Len(arg.mints)
       IN IF PrefixOk(c, mints, n)
          THEN /\ ret.ok
               /\ Len(ret.val) = n
               /\ \A j \in 1..n :
                    ret.val[j] = << StepAfter(c, mints, j - 1),
                                    mint(c, StepAfter(c, mints, j - 1), mints[j]).val[2] >>
               /\ current_step = StepAfter(c, mints, n)
          ELSE LET f == CHOOSE j \in 1..n :
                          PrefixOk(c, mints, j - 1) /\ ~PrefixOk(c, mints, j)
               IN /\ ~ret.ok
                  /\ ret = mint(c, StepAfter(c, mints, f - 1), mints[f])
                  /\ ret.err \in CurveError
                  /\ DOMAIN ret = {"ok", "err"}

\* a returned batch of at least two trades, the second starting past step 0
C5_Witness ==
  /\ op = "simulate_mints" /\ pc = "idle" /\ ret.ok
  /\ Len(ret.val) >= 2
  /\ ret.val[2][1] > 0
  /\ ret.val[2][2] > 0

\* -------------------------------------------------------------------- C6
\* C6: once a sequence of successful mints threaded from step 0 has reached
\* step = sell_amount, the payments made sum to at least total_raise_sats().
C6_FullSaleCollectsTotalRaise ==
  (SimAlive /\ current_step = curve.val.sell_amount)
    => SumPaid >= total_raise_sats(curve.val)

\* -------------------------------------------------------------------- C7
\* C7: every result equals its formula over unbounded integers, and a call
\* whose formula leaves the integer width returns InvalidConfig:
\* progress_at_step(step) = floor(step * 100 / total_supply),
\* avg_progess(steps) = product(steps) / sum(steps),
\* final_mc_sats() = floor(k / vt^2) * total_supply,
\* mint's new_step = step + tokens_out with x + sats_in within the width.
C7_NoSilentOverflow ==
  /\ op = "progress_at_step"
       => IF arg.step * 100 > UMAX
          THEN ret = Err("InvalidConfig")
          ELSE ret = Ok((arg.step * 100) \div curve.val.total_supply)
  /\ (op = "avg_progess" /\ Sum(arg.steps) /= 0)
       => IF Product(arg.steps) > UMAX \/ Sum(arg.steps) > UMAX
          THEN ret = Err("InvalidConfig")
          ELSE ret = Ok(Product(arg.steps) \div Sum(arg.steps))
  /\ op = "final_mc_sats"
       => LET v == (curve.val.k \div (curve.val.vt * curve.val.vt))
                     * curve.val.total_supply
          IN IF curve.val.vt * curve.val.vt > UMAX \/ v > UMAX
             THEN ret = Err("InvalidConfig")
             ELSE ret = Ok(v)
  /\ (op = "mint" /\ arg.sats_in > 0 /\ arg.step <= curve.val.sell_amount)
       => LET x == curve.val.k
                     \div (curve.val.vt + curve.val.sell_amount - arg.step) IN
          IF x + arg.sats_in > UMAX
          THEN ret = Err("InvalidConfig")
          ELSE ret.ok /\ ret.val[1] = arg.step + ret.val[2]

\* -------------------------------------------------------------------- C8
\* C8 as stated: x strictly increasing and y strictly decreasing (>= vt) in the step.
C8_XStrictlyIncreasing ==
  (op = "snapshot" /\ ret.ok)
    => \A s1 \in 0..(arg.step - 1) :
         LET r1 == snapshot(curve.val, s1) IN
         /\ r1.ok
         /\ r1.val.x < ret.val.x
         /\ r1.val.y > ret.val.y
         /\ ret.val.y >= curve.val.vt

\* C8 (amended): along the curve the sats-side reserve never decreases: for
\* 0 <= s1 < s2 <= sell_amount, snapshot(s1).x <= snapshot(s2).x, while
\* snapshot(s1).y > snapshot(s2).y >= vt.
C8_XNonDecreasing ==
  (op = "snapshot" /\ ret.ok)
    => \A s1 \in 0..(arg.step - 1) :
         LET r1 == snapshot(curve.val, s1) IN
         /\ r1.ok
         /\ r1.val.x <= ret.val.x
         /\ r1.val.y > ret.val.y
         /\ ret.val.y >= curve.val.vt

\* two different steps whose snapshots have the same x
C8_Witness ==
  /\ op = "snapshot" /\ ret.ok
  /\ \E s1 \in 0..(arg.step - 1) :
       /\ snapshot(curve.val, s1).val.x = ret.val.x
       /\ snapshot(curve.val, s1).val.y > ret.val.y

\* -------------------------------------------------------------------- C9
\* C9 as stated: a step above sell_amount makes snapshot and mint return
\* OutOfRange, whatever sats_in is.
C9_OutOfRangeAlways ==
  /\ (op = "snapshot" /\ arg.step > curve.val.sell_amount)
       => ret = Err("OutOfRange")
  /\ (op = "mint" /\ arg.step > curve.val.sell_amount)
       => ret = Err("OutOfRange")

\* C9 (amended): a step above sell_amount makes snapshot return OutOfRange and
\* mint return OutOfRange for every sats_in > 0; with sats_in = 0 mint returns
\* ZeroInput; neither produces a result.
C9_OutOfRangeUnlessZeroInput ==
  /\ (op = "snapshot" /\ arg.step > curve.val.sell_amount)
       => ret = Err("OutOfRange")
  /\ (op = "mint" /\ arg.step > curve.val.sell_amount)
       => IF arg.sats_in > 0 THEN ret = Err("OutOfRange")
          ELSE ret = Err("ZeroInput")

\* a paid mint at a step past the end of the curve
C9_Witness ==
  /\ op = "mint"
  /\ arg.step > curve.val.sell_amount
  /\ arg.sats_in > 0
  /\ ret = Err("OutOfRange")

\* -------------------------------------------------------------------- C10
\* C10: in a successful mint vt <= y_prime <= y(step), tokens_out = y - y_prime
\* <= sell_amount - step, new_step = step + tokens_out exactly, and
\* snapshot(new_step).y = y(step) - tokens_out; the step threaded through
\* simulate_mints equals the sum of the tokens_out issued so far.
C10_TokenConservation ==
  /\ (op = "mint" /\ ret.ok /\ arg.step <= curve.val.sell_amount /\ arg.sats_in > 0)
       => LET c == curve.val
              y == c.vt + (c.sell_amount - arg.step)
              x2 == (c.k \div y) + arg.sats_in
              y_prime == Max(c.k \div x2, c.vt)
          IN /\ c.vt <= y_prime /\ y_prime <= y
             /\ ret.val[2] = y - y_prime
             /\ ret.val[2] <= c.sell_amount - arg.step
             /\ ret.val[1] = arg.step + ret.val[2]
             /\ snapshot(c, ret.val[1]).ok
             /\ snapshot(c, ret.val[1]).val.y = y - ret.val[2]
  /\ SimAlive => current_step = SumTokensOut

\* two successive trades of a batch that both issued tokens
C10_Witness ==
  /\ SimAlive
  /\ Len(results) >= 2
  /\ results[1][2] > 0 /\ results[2][2] > 0
  /\ current_step = results[1][2] + results[2][2]

====
